---- MODULE Spec2Model ----
(***************************************************************************)
(* Model of the MATRIX microphone-array capture driver, matrixio-mic.c.    *)
(*                                                                         *)
(* The driver state is the global struct matrixio_mic_substream (ms): the  *)
(* bound substream, the atomic position, the two flag bits and the         *)
(* worker_lock, together with the runtime of the bound substream (ring     *)
(* geometry and the vmalloc'ed "dma" area), the device registers written   *)
(* by hw_params, and the position of the threaded interrupt handler.       *)
(*                                                                         *)
(* The PCM callbacks are invoked by the sound core, which serialises them  *)
(* and calls each only in the stream states it allows (open, hw_params in  *)
(* OPEN/SETUP/PREPARED, prepare in SETUP/PREPARED, START in PREPARED, STOP *)
(* in RUNNING, hw_free then close on release); st is that stream state.    *)
(* The hard interrupt handler and the interrupt thread run concurrently    *)
(* with the callbacks, one atomic access per step where the order matters. *)
(* Sizes are counted in 16-bit words (bytes / 2).                          *)
(***************************************************************************)
EXTENDS Integers, Sequences, FiniteSets, TLC

\* ------------------------------------------------------------------ bounds
\* Frames per period (MATRIXIO_PERIOD_FRAMES), scaled down.
PERIOD_FRAMES == 2
\* Largest channel count offered to hw_params (MATRIXIO_CHANNELS_MAX scaled down).
MaxChannels == 2
\* Largest number of periods of a ring offered to hw_params.
MaxPeriods == 3
\* Number of device interrupts that wake the thread in one behaviour.
MaxIrq == 3

\* -------------------------------------------------------------- constants
MIN_PERIODS == 2
EBUSY == 16
EINVAL == 22
ENOMEM == 12
IRQ_NONE == 0
IRQ_HANDLED == 1
IRQ_WAKE_THREAD == 2

NULL == 0
Substreams == {1, 2}

\* matrixio_params[]: rate, decimation, gain
matrixio_params ==
  << [rate |-> 8000,  decimation |-> 374, gain |-> 1],
     [rate |-> 12000, decimation |-> 249, gain |-> 2],
     [rate |-> 16000, decimation |-> 186, gain |-> 3],
     [rate |-> 22050, decimation |-> 135, gain |-> 5],
     [rate |-> 24000, decimation |-> 124, gain |-> 5],
     [rate |-> 32000, decimation |-> 92,  gain |-> 6],
     [rate |-> 44100, decimation |-> 67,  gain |-> 7],
     [rate |-> 48000, decimation |-> 61,  gain |-> 7],
     [rate |-> 96000, decimation |-> 30,  gain |-> 10] >>

\* FIR_Coeff[]: one coefficient vector per rate, closed by a sentinel of rate 0.
\* A coefficient vector is identified by the rate it was designed for.
FIR_Coeff ==
  [i \in 1..(Len(matrixio_params) + 1) |->
     IF i <= Len(matrixio_params)
       THEN [rate_ |-> matrixio_params[i].rate, coeff_ |-> matrixio_params[i].rate]
       ELSE [rate_ |-> 0, coeff_ |-> 0]]

\* Rates a caller may ask for: the table's, and some that are not in it.
TableRates == {matrixio_params[i].rate : i \in 1..Len(matrixio_params)}
OtherRates == {11025, 64000}
\* Channel counts and ring lengths (in periods) a caller may ask for: the
\* smallest and the largest.
ChannelCounts == {1, MaxChannels}
PeriodCounts == {MIN_PERIODS, MaxPeriods}
\* Rates offered while the interrupt pipeline is explored.
StreamRates == {48000, 11025}

VARIABLES
  substream,   \* ms->substream: NULL or the bound substream
  position,    \* ms->position (atomic_t), in frames
  running,     \* ms->flags bit 0
  xfer,        \* ms->flags bit 1: SPI transfer in progress
  irq,         \* TRUE while the threaded IRQ is registered
  lock,        \* ms->worker_lock: "free" or "thread"
  rt,          \* substream->runtime: channels, period_size, buffer_size
  dma_area,    \* runtime->dma_area: the ring's words, << >> when NULL
  frag_buffer, \* ms->frag_buffer, device-planar words of the last bus read
  dev,         \* device: CONF_BASE+0x06, CONF_BASE+0x07 and the FIR program
  st,          \* stream state kept by the sound core
  tpc,         \* interrupt thread: where matrixio_pcm_thread stands
  tl,          \* interrupt thread: locals (len, pos, buf, i, c)
  pending,     \* IRQTF_RUNTHREAD: the thread has been woken and not yet run
  last,        \* the last callback or hard-irq handler and what it returned
  h            \* history: counters of interrupts, reads, warnings, periods;
               \* stale: the run in flight was in or past its bus read when
               \* the latest trigger(START) was issued

vars == << substream, position, running, xfer, irq, lock, rt, dma_area,
           frag_buffer, dev, st, tpc, tl, pending, last, h >>

\* ---------------------------------------------------------------- helpers
Zeros(n) == [k \in 1..n |-> 0]

\* Sample i of channel c in the fragment of bus read number t.
Encode(t, c, i) == t * 100 + c * 10 + i

\* Words of frag_buffer: period_bytes_max = per-channel period bytes * channels max.
FragWords == PERIOD_FRAMES * MaxChannels

\* frames_to_bytes(runtime, frames), in words.
frames_to_words(r, frames) == frames * r.channels

\* snd_pcm_lib_period_bytes(substream), in words.
period_words(r) == frames_to_words(r, r.period_size)

NoLocals == [len |-> 0, pos |-> 0, buf |-> 0, i |-> 0, c |-> 0]

Init ==
  /\ substream = NULL
  /\ position = 0
  /\ running = FALSE
  /\ xfer = FALSE
  /\ irq = FALSE
  /\ lock = "free"
  /\ rt = [channels |-> 0, period_size |-> 0, buffer_size |-> 0]
  /\ dma_area = << >>
  /\ frag_buffer = Zeros(FragWords)
  /\ dev = [conf06 |-> 0, conf07 |-> 0, fir |-> 0]
  /\ st = "CLOSED"
  /\ tpc = "idle"
  /\ tl = NoLocals
  /\ pending = FALSE
  /\ last = [op |-> "probe", arg |-> 0, ret |-> 0]
  /\ h = [nirq |-> 0, nread |-> 0, fired |-> 0, warned |-> 0, nper |-> 0,
          fresh |-> {}, oob |-> FALSE, stale |-> FALSE]

NewRuntime == [channels |-> 0, period_size |-> 0, buffer_size |-> 0]

\* ------------------------------------------------------- process context
\* The substream the sound core hands to open: the first one that is not open.
free_substream == IF substream = NULL THEN 1 ELSE 2

\* The test of matrixio_pcm_open for a session that is open already.
\* (faulty variant: the test left out)
open_busy_unchecked == FALSE

open_busy == substream # NULL

\* fail_substream: ms->substream = NULL when request_threaded_irq failed.
\* (faulty variant: the substream left bound)
open_fail_keeps(s) == s

open_fail_unbind(s) == NULL

\* matrixio_pcm_open, on a substream that is not open, with a fresh runtime;
\* irqOk is whether request_threaded_irq succeeds.
matrixio_pcm_open(s, irqOk) ==
  /\ s = free_substream
  /\ IF open_busy
       THEN /\ last' = [op |-> "open", arg |-> 0, ret |-> -EBUSY]
            /\ UNCHANGED << substream, position, running, irq, rt, dma_area, st, h >>
       ELSE /\ position' = 0
            /\ running' = FALSE
            /\ h' = [h EXCEPT !.nper = 0, !.fresh = {}]
            /\ IF irqOk
                 THEN /\ substream' = s
                      /\ irq' = TRUE
                      /\ rt' = NewRuntime
                      /\ dma_area' = << >>
                      /\ st' = "OPEN"
                      /\ last' = [op |-> "open", arg |-> 0, ret |-> 0]
                 ELSE /\ substream' = open_fail_unbind(s)
                      /\ last' = [op |-> "open", arg |-> 0, ret |-> -ENOMEM]
                      /\ UNCHANGED << irq, rt, dma_area, st >>
  /\ UNCHANGED << xfer, lock, frag_buffer, dev, tpc, tl, pending >>

\* ms->substream = NULL at the end of matrixio_pcm_close.
\* (faulty variant: the substream left bound)
close_keeps_substream == substream

close_unbind == NULL

\* matrixio_pcm_close, called on release after hw_free.  free_irq returns only
\* when the interrupt thread has finished every run it was woken for.
matrixio_pcm_close ==
  /\ substream # NULL
  /\ st = "OPEN"
  /\ tpc = "idle" /\ ~pending
  /\ running' = FALSE
  /\ irq' = FALSE
  /\ substream' = close_unbind
  /\ rt' = NewRuntime
  /\ st' = "CLOSED"
  /\ last' = [op |-> "close", arg |-> 0, ret |-> 0]
  /\ UNCHANGED << position, xfer, lock, dma_area, frag_buffer, dev, tpc, tl,
                  pending, h >>

\* spin_lock_irqsave(&ms->worker_lock) of STOP: taken when the lock is free.
\* (faulty variant: running cleared without taking the lock)
stop_without_lock == TRUE

stop_lock == lock = "free"

\* matrixio_pcm_trigger.  START is issued in PREPARED, STOP in RUNNING; STOP
\* spins until worker_lock is free.
matrixio_pcm_trigger(cmd) ==
  /\ substream # NULL
  /\ CASE cmd = "START" ->
            /\ st = "PREPARED"
            /\ running' = TRUE
            /\ st' = "RUNNING"
            /\ h' = [h EXCEPT !.stale = tpc \in {"read", "lock"}]
            /\ last' = [op |-> "trigger_start", arg |-> 0, ret |-> 0]
       [] cmd = "STOP" ->
            /\ st = "RUNNING"
            /\ stop_lock
            /\ running' = FALSE
            /\ st' = "SETUP"
            /\ h' = h
            /\ last' = [op |-> "trigger_stop", arg |-> 0, ret |-> 0]
       [] OTHER ->
            /\ last' = [op |-> "trigger", arg |-> 0, ret |-> -EINVAL]
            /\ UNCHANGED << running, st, h >>
  /\ UNCHANGED << substream, position, xfer, irq, lock, rt, dma_area,
                  frag_buffer, dev, tpc, tl, pending >>

\* atomic_set(&ms->position, 0) of matrixio_pcm_prepare: the value stored.
\* (faulty variant: position left as it was)
prepare_position_kept == position

prepare_position == 0

\* matrixio_pcm_prepare, issued in SETUP or PREPARED.
matrixio_pcm_prepare ==
  /\ substream # NULL
  /\ st \in {"SETUP", "PREPARED"}
  /\ IF rt.period_size # PERIOD_FRAMES
       THEN /\ last' = [op |-> "prepare", arg |-> 0, ret |-> -EINVAL]
            /\ UNCHANGED << position, st, h >>
       ELSE /\ position' = prepare_position
            /\ st' = "PREPARED"
            /\ h' = [h EXCEPT !.nper = 0, !.fresh = {}]
            /\ last' = [op |-> "prepare", arg |-> 0, ret |-> 0]
  /\ UNCHANGED << substream, running, xfer, irq, lock, rt, dma_area,
                  frag_buffer, dev, tpc, tl, pending >>

\* matrixio_pcm_hw_free, issued in SETUP or PREPARED.
matrixio_pcm_hw_free ==
  /\ substream # NULL
  /\ st \in {"SETUP", "PREPARED"}
  /\ dma_area' = << >>
  /\ st' = "OPEN"
  /\ last' = [op |-> "hw_free", arg |-> 0, ret |-> 0]
  /\ UNCHANGED << substream, position, running, xfer, irq, lock, rt,
                  frag_buffer, dev, tpc, tl, pending, h >>

\* matrixio_pcm_pointer
matrixio_pcm_pointer == position

\* The loop over matrixio_params[]: the index of the first row of the rate, or
\* ARRAY_SIZE (here Len + 1, rows being numbered from 1) when there is none.
\* (faulty variants of the loop below: the last row never looked at, and a
\* rate without a row given the last row)
RECURSIVE params_index_skip_last(_, _)
params_index_skip_last(rate, i) ==
  IF i >= Len(matrixio_params) THEN Len(matrixio_params) + 1
  ELSE IF rate = matrixio_params[i].rate THEN i
  ELSE params_index_skip_last(rate, i + 1)

RECURSIVE params_index_clamp(_, _)
params_index_clamp(rate, i) ==
  IF i >= Len(matrixio_params) THEN Len(matrixio_params)
  ELSE IF rate = matrixio_params[i].rate THEN i
  ELSE params_index_clamp(rate, i + 1)

RECURSIVE params_index(_, _)
params_index(rate, i) ==
  IF i > Len(matrixio_params) THEN i
  ELSE IF rate = matrixio_params[i].rate THEN i
  ELSE params_index(rate, i + 1)

\* The loop over FIR_Coeff[]: the index of the first row of the rate, or of
\* the sentinel.
RECURSIVE fir_index(_, _)
fir_index(rate, i) ==
  IF FIR_Coeff[i].rate_ = 0 THEN i
  ELSE IF FIR_Coeff[i].rate_ = rate THEN i
  ELSE fir_index(rate, i + 1)

\* snd_pcm_lib_alloc_vmalloc_buffer: keeps an area that is large enough,
\* otherwise frees it and allocates a zeroed one of the size asked for.
alloc_vmalloc_buffer(area, size, allocOk) ==
  IF area # << >> /\ Len(area) >= size THEN [ret |-> 0, area |-> area]
  ELSE IF allocOk THEN [ret |-> 1, area |-> Zeros(size)]
  ELSE [ret |-> -ENOMEM, area |-> << >>]

\* (faulty variant of hw_params_body below: the ring allocated first, the
\* device written only when the allocation succeeded)
hw_params_body_alloc_first(width, rate, buffer_words, allocOk) ==
  LET i == params_index(rate, 1)
      j == fir_index(rate, 1)
      a == alloc_vmalloc_buffer(dma_area, buffer_words, allocOk)
  IN  IF width # 16 \/ i = Len(matrixio_params) + 1 \/ FIR_Coeff[j].rate_ = 0
        THEN [ret |-> -EINVAL, dev |-> dev, area |-> dma_area]
      ELSE IF a.ret < 0 THEN [ret |-> a.ret, dev |-> dev, area |-> a.area]
      ELSE [ret |-> a.ret,
            dev |-> [conf06 |-> matrixio_params[i].decimation,
                     conf07 |-> matrixio_params[i].gain,
                     fir |-> FIR_Coeff[j].coeff_],
            area |-> a.area]

\* The body of matrixio_pcm_hw_params: what it returns, and the device and the
\* dma area it leaves.
hw_params_body(width, rate, buffer_words, allocOk) ==
  LET i == params_index(rate, 1)
      j == fir_index(rate, 1)
      d1 == IF i <= Len(matrixio_params)
              THEN [dev EXCEPT !.conf06 = matrixio_params[i].decimation,
                               !.conf07 = matrixio_params[i].gain]
              ELSE dev
      d2 == IF FIR_Coeff[j].rate_ # 0
              THEN [d1 EXCEPT !.fir = FIR_Coeff[j].coeff_]
              ELSE d1
      a == alloc_vmalloc_buffer(dma_area, buffer_words, allocOk)
  IN  IF width # 16 THEN [ret |-> -EINVAL, dev |-> dev, area |-> dma_area]
      ELSE IF i = Len(matrixio_params) + 1
        THEN [ret |-> -EINVAL, dev |-> dev, area |-> dma_area]
      ELSE IF FIR_Coeff[j].rate_ = 0
        THEN [ret |-> -EINVAL, dev |-> d1, area |-> dma_area]
      ELSE [ret |-> a.ret, dev |-> d2, area |-> a.area]

\* The constraints matrixio_pcm_open installs on the runtime, which the sound
\* core applies to a request before it calls hw_params: whole periods, a
\* buffer of a multiple of PERIOD_FRAMES frames, periods of PERIOD_FRAMES.
hw_constraints(period_size, periods) ==
  /\ (period_size * periods) % PERIOD_FRAMES = 0
  /\ period_size = PERIOD_FRAMES

\* hw_params as the sound core runs it, in OPEN, SETUP or PREPARED: refine the
\* request, call matrixio_pcm_hw_params, then either store the geometry in the
\* runtime (SETUP) or fall back to OPEN through hw_free.
matrixio_pcm_hw_params(width, rate, channels, period_size, periods, allocOk) ==
  LET buffer_size == period_size * periods
      r == IF hw_constraints(period_size, periods)
             THEN hw_params_body(width, rate, buffer_size * channels, allocOk)
             ELSE [ret |-> -EINVAL, dev |-> dev, area |-> dma_area]
  IN  /\ substream # NULL
      /\ st \in {"OPEN", "SETUP", "PREPARED"}
      /\ dev' = r.dev
      /\ last' = [op |-> "hw_params", arg |-> rate, ret |-> r.ret]
      /\ IF r.ret >= 0
           THEN /\ dma_area' = r.area
                /\ rt' = [channels |-> channels, period_size |-> period_size,
                          buffer_size |-> buffer_size]
                /\ st' = "SETUP"
           ELSE /\ dma_area' = << >>
                /\ rt' = rt
                /\ st' = "OPEN"
      /\ UNCHANGED << substream, position, running, xfer, irq, lock,
                      frag_buffer, tpc, tl, pending, h >>

\* ----------------------------------------------------- interrupt context
\* test_and_set_bit(1, &ms->flags): the value bit 1 is left with, and whether
\* it was set already (the overflow warning).
\* (faulty variant: the bit is tested but not set)
test_bit1_only == xfer

test_and_set_bit1 == TRUE
overflow == xfer

\* test_bit(0, &ms->flags): has receive been started.
\* (faulty variant: the test left out)
test_bit0_skipped == TRUE

test_bit0 == running

\* matrixio_pcm_interrupt, the hard-irq handler; it runs while the IRQ is
\* registered.  Returning IRQ_WAKE_THREAD sets IRQTF_RUNTHREAD.
matrixio_pcm_interrupt ==
  /\ irq
  /\ IF substream = NULL
       THEN /\ last' = [op |-> "irq", arg |-> 0, ret |-> IRQ_NONE]
            /\ UNCHANGED << xfer, pending, h >>
       ELSE IF ~test_bit0
       THEN /\ last' = [op |-> "irq", arg |-> 0, ret |-> IRQ_HANDLED]
            /\ UNCHANGED << xfer, pending, h >>
       ELSE /\ h.nirq < MaxIrq
            /\ xfer' = test_and_set_bit1
            /\ pending' = TRUE
            /\ h' = [h EXCEPT !.nirq = @ + 1, !.fired = @ + 1,
                              !.warned = IF overflow THEN @ + 1 ELSE @]
            /\ last' = [op |-> "irq", arg |-> 0, ret |-> IRQ_WAKE_THREAD]
  /\ UNCHANGED << substream, position, running, irq, lock, rt, dma_area,
                  frag_buffer, dev, st, tpc, tl >>

\* The interrupt thread picks up a wake-up and enters matrixio_pcm_thread: the
\* arguments of matrixio_read are evaluated and the bus read starts.
thread_wake ==
  /\ irq /\ pending /\ tpc = "idle"
  /\ pending' = FALSE
  /\ tpc' = "read"
  /\ tl' = [NoLocals EXCEPT !.len = period_words(rt)]
  /\ UNCHANGED << substream, position, running, xfer, irq, lock, rt, dma_area,
                  frag_buffer, dev, st, last, h >>

\* The fragment the device delivers to bus read number t: channel-planar.
device_fragment(t, old, len) ==
  [k \in 1..FragWords |->
     IF k <= len
       THEN Encode(t, (k - 1) \div PERIOD_FRAMES, (k - 1) % PERIOD_FRAMES)
       ELSE old[k]]

\* clear_bit(1, &ms->flags) after the bus read, whatever it returned.
\* (faulty variants: the bit cleared only after a read that succeeded, and
\* the bit not cleared at all)
clear_bit1_on_success(ok) == IF ok THEN FALSE ELSE xfer

clear_bit1_never(ok) == xfer

clear_bit1(ok) == FALSE

\* matrixio_read returns (ok or not); bit 1 is cleared; a failed read returns.
thread_read_done(ok) ==
  /\ tpc = "read"
  /\ xfer' = clear_bit1(ok)
  /\ IF ok
       THEN /\ frag_buffer' = device_fragment(h.nread + 1, frag_buffer, tl.len)
            /\ h' = [h EXCEPT !.nread = @ + 1, !.fired = 0, !.warned = 0]
            /\ tpc' = "lock"
            /\ tl' = tl
       ELSE /\ frag_buffer' = frag_buffer
            /\ h' = [h EXCEPT !.fired = 0, !.warned = 0, !.stale = FALSE]
            /\ tpc' = "idle"
            /\ tl' = NoLocals
  /\ UNCHANGED << substream, position, running, irq, lock, rt, dma_area, dev,
                  st, pending, last >>

\* pos += PERIOD_FRAMES; if (pos >= runtime->buffer_size) pos -= buffer_size.
\* (faulty variants: > for >=, and no wrap)
next_position_gt(pos, buffer_size) ==
  IF pos + PERIOD_FRAMES > buffer_size
    THEN pos + PERIOD_FRAMES - buffer_size
    ELSE pos + PERIOD_FRAMES

next_position_nowrap(pos, buffer_size) == pos + PERIOD_FRAMES

next_position(pos, buffer_size) ==
  IF pos + PERIOD_FRAMES >= buffer_size
    THEN pos + PERIOD_FRAMES - buffer_size
    ELSE pos + PERIOD_FRAMES

\* The two tests under worker_lock that make the thread return: the stream
\* was stopped, or the dma buffer is missing.
\* (faulty variant: the running test left out)
thread_bail_no_running_test == dma_area = << >>

thread_bail == ~running \/ dma_area = << >>

\* (faulty variant of thread_lock: the advanced position is stored before
\* the ring stores)
thread_lock_publish_first ==
  /\ tpc = "lock"
  /\ lock = "free"
  /\ IF thread_bail
       THEN /\ tpc' = "idle"
            /\ tl' = NoLocals
            /\ lock' = "free"
            /\ position' = position
            /\ h' = [h EXCEPT !.stale = FALSE]
       ELSE /\ lock' = "thread"
            /\ tl' = [tl EXCEPT !.pos = position,
                                !.buf = frames_to_words(rt, position),
                                !.i = 0, !.c = 0]
            /\ position' = next_position(position, rt.buffer_size)
            /\ tpc' = "write"
            /\ h' = h
  /\ UNCHANGED << substream, running, xfer, irq, rt, dma_area,
                  frag_buffer, dev, st, pending, last >>

\* spin_lock_irqsave, the two tests under the lock, and the read of position.
thread_lock ==
  /\ tpc = "lock"
  /\ lock = "free"
  /\ IF thread_bail
       THEN /\ tpc' = "idle"
            /\ tl' = NoLocals
            /\ lock' = "free"
            /\ h' = [h EXCEPT !.stale = FALSE]
       ELSE /\ lock' = "thread"
            /\ tl' = [tl EXCEPT !.pos = position,
                                !.buf = frames_to_words(rt, position),
                                !.i = 0, !.c = 0]
            /\ tpc' = "write"
            /\ h' = h
  /\ UNCHANGED << substream, position, running, xfer, irq, rt, dma_area,
                  frag_buffer, dev, st, pending, last >>

\* The word of the fragment the inner loop reads for channel c of frame i:
\* frag_buffer[c * PERIOD_FRAMES + i].
\* (faulty variant: the fragment read as if it were interleaved already)
frag_index_interleaved(c, i) == i * rt.channels + c

frag_index(c, i) == c * PERIOD_FRAMES + i

\* One turn of the inner loop: *buf++ = frag_buffer[c * PERIOD_FRAMES + i].
\* A store past the end of the area is recorded in h.oob.
thread_store ==
  /\ tpc = "write"
  /\ LET w == tl.buf
         v == frag_buffer[frag_index(tl.c, tl.i) + 1]
         lastc == tl.c + 1 >= rt.channels
         ni == IF lastc THEN tl.i + 1 ELSE tl.i
     IN  /\ IF w < Len(dma_area)
              THEN /\ dma_area' = [dma_area EXCEPT ![w + 1] = v]
                   /\ h' = [h EXCEPT !.fresh = @ \cup {w}]
              ELSE /\ dma_area' = dma_area
                   /\ h' = [h EXCEPT !.oob = TRUE]
         /\ tl' = [tl EXCEPT !.buf = w + 1, !.i = ni,
                             !.c = IF lastc THEN 0 ELSE tl.c + 1]
         /\ tpc' = IF ni >= PERIOD_FRAMES THEN "setpos" ELSE "write"
  /\ UNCHANGED << substream, position, running, xfer, irq, lock, rt,
                  frag_buffer, dev, st, pending, last >>

\* atomic_set(&ms->position, pos), spin_unlock_irqrestore.
thread_set_position ==
  /\ tpc = "setpos"
  /\ position' = next_position(tl.pos, rt.buffer_size)
  /\ lock' = "free"
  /\ tpc' = "elapsed"
  /\ h' = [h EXCEPT !.nper = @ + 1]
  /\ UNCHANGED << substream, running, xfer, irq, rt, dma_area, frag_buffer,
                  dev, st, tl, pending, last >>

\* snd_pcm_period_elapsed(ms->substream), outside the lock; the handler returns.
thread_period_elapsed ==
  /\ tpc = "elapsed"
  /\ tpc' = "idle"
  /\ tl' = NoLocals
  /\ h' = [h EXCEPT !.stale = FALSE]
  /\ UNCHANGED << substream, position, running, xfer, irq, lock, rt, dma_area,
                  frag_buffer, dev, st, pending, last >>

\* ------------------------------------------------------- specifications
Widths == {16, 32}

Callbacks ==
  \/ \E s \in Substreams, irqOk \in BOOLEAN : matrixio_pcm_open(s, irqOk)
  \/ matrixio_pcm_close
  \/ matrixio_pcm_hw_free
  \/ matrixio_pcm_prepare

\* The capture stream: every callback, the hard-irq handler and the thread.
Next ==
  \/ Callbacks
  \/ \E rate \in StreamRates, channels \in ChannelCounts,
        periods \in PeriodCounts :
       matrixio_pcm_hw_params(16, rate, channels, PERIOD_FRAMES, periods, TRUE)
  \/ \E cmd \in {"START", "STOP"} : matrixio_pcm_trigger(cmd)
  \/ matrixio_pcm_interrupt
  \/ thread_wake
  \/ \E ok \in BOOLEAN : thread_read_done(ok)
  \/ thread_lock
  \/ thread_store
  \/ thread_set_position
  \/ thread_period_elapsed

Spec == Init /\ [][Next]_vars

\* The capture stream with an interrupt thread that is scheduled whenever it
\* has been woken, and bus reads that return: every step of the bottom half
\* that can be taken is taken eventually.  Callbacks and interrupts come as
\* they will.
SpecFair ==
  /\ Spec
  /\ WF_vars(thread_wake)
  /\ WF_vars(\E ok \in BOOLEAN : thread_read_done(ok))
  /\ WF_vars(thread_lock)
  /\ WF_vars(thread_store)
  /\ WF_vars(thread_set_position)
  /\ WF_vars(thread_period_elapsed)

\* Configuration alone: every request hw_params may be given, no interrupts.
NextParams ==
  \/ Callbacks
  \/ \E width \in Widths, rate \in TableRates \cup OtherRates,
        channels \in ChannelCounts,
        period_size \in {PERIOD_FRAMES, PERIOD_FRAMES + 1},
        periods \in PeriodCounts, allocOk \in BOOLEAN :
       matrixio_pcm_hw_params(width, rate, channels, period_size, periods, allocOk)

SpecParams == Init /\ [][NextParams]_vars

\* ------------------------------------------------------------------ claims
\* A step of the interrupt thread (the bottom half).
thread_step == << tpc, tl >>' # << tpc, tl >>

\* The ring-write section of the bottom half: from the read of position under
\* worker_lock to the store of the advanced position.
in_write_section == tpc \in {"write", "setpos"}

\* C1: while the stream is stopped (from the return of trigger(STOP) to the next
\* trigger(START)) no step of the bottom half writes the ring or changes
\* position; a bottom half still in flight at STOP returns at the running test.
C1_NoWriteAfterStop ==
  [][ (~running /\ thread_step) =>
        (dma_area' = dma_area /\ position' = position /\ ~in_write_section') ]_vars

\* C1 witness: STOP has returned while a woken bottom half had not yet taken
\* worker_lock; it is now about to test running.
C1_Witness ==
  /\ last.op = "trigger_stop"
  /\ ~running
  /\ tpc = "lock"
  /\ dma_area # << >>

\* C2: every position that pointer (called while the stream is prepared or
\* running) or the bottom half (under worker_lock) can observe lies in
\* [0, buffer_size) of the configured ring.
C2_PositionInRange ==
  /\ st \in {"PREPARED", "RUNNING"} =>
       (0 <= matrixio_pcm_pointer /\ matrixio_pcm_pointer < rt.buffer_size)
  /\ in_write_section => (0 <= tl.pos /\ tl.pos < rt.buffer_size)

\* C2 witness: the ring has wrapped while running.
C2_Witness ==
  /\ st = "RUNNING"
  /\ h.nper * PERIOD_FRAMES = rt.buffer_size
  /\ position = 0

\* C3: an open issued while a session is open returns -EBUSY and changes
\* nothing of the session: the bound substream, position, both flag bits, the
\* IRQ registration, the runtime, the ring and the thread stay as they were.
C3_BusyOpenLeavesSession ==
  [][ \A s \in Substreams, irqOk \in BOOLEAN :
        (substream # NULL /\ matrixio_pcm_open(s, irqOk)) =>
          /\ last'.ret = -EBUSY
          /\ UNCHANGED << substream, position, running, xfer, irq, lock, rt,
                          dma_area, st, tpc, tl, pending >> ]_vars

\* C3 witness: a second open was refused while the first session was running
\* with periods already captured.
C3_Witness ==
  /\ last.op = "open" /\ last.ret = -EBUSY
  /\ substream = 1
  /\ st = "RUNNING"
  /\ position > 0

\* C4: counting from the last completed bus read, the first top half that wakes
\* the thread finds bit 1 clear and every later one finds it set and warns
\* once: two top halves give exactly one overflow warning.  The top half
\* leaves running and position alone.
C4_OverflowWarnsOnce ==
  /\ [](h.fired >= 1 => (xfer /\ h.warned = h.fired - 1))
  /\ [][ matrixio_pcm_interrupt =>
          UNCHANGED << running, st, position, dma_area, lock, tpc, tl >> ]_vars

\* C4 witness: two top halves fired before the bottom half completed its bus
\* read; one warning, the stream still running.
C4_Witness ==
  /\ h.fired = 2 /\ h.warned = 1
  /\ tpc = "read"
  /\ st = "RUNNING" /\ running

\* C5 (as claimed): bit 1 is set whenever a run of the bottom half is pending
\* or is in its bus read.
C5_XferSetWhileScheduled ==
  (pending \/ tpc = "read") => xfer

\* C6: while running is clear the bottom half is not in its ring-write section.
C6_StoppedNotWriting ==
  ~running => ~in_write_section

\* C6 witness: the stream was stopped after periods were captured, with a
\* woken bottom half still in its bus read.
C6_Witness ==
  /\ ~running
  /\ st = "SETUP"
  /\ h.nper >= 1
  /\ tpc = "read"

\* C7: after N successful runs of the bottom half since position was reset to
\* 0, position is N * PERIOD_FRAMES modulo the ring's frames.
C7_PositionIsPeriodsModBuffer ==
  st \in {"PREPARED", "RUNNING"} =>
    position = (h.nper * PERIOD_FRAMES) % rt.buffer_size

\* C7 witness: one period more than the shortest ring holds: position has
\* wrapped and stands at PERIOD_FRAMES again.
C7_Witness ==
  /\ st = "RUNNING"
  /\ rt.buffer_size = MIN_PERIODS * PERIOD_FRAMES
  /\ h.nper = MIN_PERIODS + 1
  /\ position = PERIOD_FRAMES

\* Frames position counts as committed since it was reset: those below it,
\* or the whole ring once it has wrapped.
committed_frames ==
  IF h.nper * PERIOD_FRAMES >= rt.buffer_size
    THEN 0 .. (rt.buffer_size - 1)
    ELSE 0 .. (position - 1)

\* C8: at every point of every interleaving, every word of every frame that
\* position counts as committed has been stored by the bottom half.
C8_CommittedFramesWritten ==
  st = "RUNNING" =>
    \A f \in committed_frames, c \in 0 .. (rt.channels - 1) :
      frames_to_words(rt, f) + c \in h.fresh

\* C8 witness: a consumer looks while the bottom half is in the middle of the
\* stores of a later period.
C8_Witness ==
  /\ st = "RUNNING"
  /\ h.nper >= 1
  /\ tpc = "write"
  /\ tl.i >= 1
  /\ rt.channels > 1

\* The nine supported sample rates, as the rate table is specified.
SupportedRates == {8000, 12000, 16000, 22050, 24000, 32000, 44100, 48000, 96000}

\* C9: with a 16-bit format and the allocation succeeding, hw_params succeeds
\* exactly when the rate is one of the nine supported rates and the period
\* size is PERIOD_FRAMES.
C9_HwParamsSucceedsIff ==
  [][ \A width \in Widths, rate \in TableRates \cup OtherRates,
         channels \in ChannelCounts,
         period_size \in {PERIOD_FRAMES, PERIOD_FRAMES + 1},
         periods \in PeriodCounts, allocOk \in BOOLEAN :
        ( /\ width = 16 /\ allocOk
          /\ last'.op = "hw_params" /\ last'.arg = rate
          /\ matrixio_pcm_hw_params(width, rate, channels, period_size,
                                    periods, allocOk) )
        => ( last'.ret >= 0 <=>
               (rate \in SupportedRates /\ period_size = PERIOD_FRAMES) ) ]_vars

\* C9 witness: the last row of the table was asked for and configured.
C9_Witness ==
  /\ last.op = "hw_params" /\ last.arg = 96000 /\ last.ret = 1
  /\ st = "SETUP"
  /\ dev = [conf06 |-> 30, conf07 |-> 10, fir |-> 96000]

\* C10: for a rate outside the table hw_params returns -EINVAL, writes no
\* register, uploads no FIR and allocates no ring; the session is unchanged.
C10_UnsupportedRateNoEffect ==
  [][ \A width \in Widths, rate \in OtherRates, channels \in ChannelCounts,
         period_size \in {PERIOD_FRAMES, PERIOD_FRAMES + 1},
         periods \in PeriodCounts, allocOk \in BOOLEAN :
        ( /\ last'.op = "hw_params" /\ last'.arg = rate
          /\ matrixio_pcm_hw_params(width, rate, channels, period_size,
                                    periods, allocOk) )
        => /\ last'.ret = -EINVAL
           /\ dev' = dev
           /\ dma_area' \in {dma_area, << >>}
           /\ UNCHANGED << substream, position, running, xfer, irq, lock, rt >>
    ]_vars

\* C10 witness: 11025 Hz was refused after 48 kHz had been configured, and the
\* device still holds the 48 kHz configuration.
C10_Witness ==
  /\ last.op = "hw_params" /\ last.arg = 11025 /\ last.ret = -EINVAL
  /\ dev = [conf06 |-> 61, conf07 |-> 7, fir |-> 48000]
  /\ substream # NULL

\* The words of the ring the run of the bottom half in progress is to fill:
\* those of frames [P, P + PERIOD_FRAMES), P the position it read.
run_window ==
  frames_to_words(rt, tl.pos) .. (frames_to_words(rt, tl.pos + PERIOD_FRAMES) - 1)

\* C11: when the bottom half has finished the stores of a run that read
\* position P with C channels, ring word (P+i)*C + c holds fragment word
\* c*PERIOD_FRAMES + i, which is encode(c,i) of the bus read of this run when
\* the fragment was read with the same geometry; and no store of the run
\* changes a ring word outside frames [P, P + PERIOD_FRAMES).
C11_Deinterleave ==
  /\ [](tpc = "setpos" =>
         \A i \in 0 .. (PERIOD_FRAMES - 1), c \in 0 .. (rt.channels - 1) :
           LET word == dma_area[(tl.pos + i) * rt.channels + c + 1]
           IN  /\ word = frag_buffer[c * PERIOD_FRAMES + i + 1]
               /\ tl.len = period_words(rt) => word = Encode(h.nread, c, i))
  /\ [][ (tpc = "write" /\ thread_step) =>
           /\ Len(dma_area') = Len(dma_area)
           /\ \A k \in 1 .. Len(dma_area) :
                dma_area'[k] # dma_area[k] => (k - 1) \in run_window ]_vars

\* C11 witness: a two-channel run at a position above 0 has finished its
\* stores; the last word of its window holds the last word of the fragment.
C11_Witness ==
  /\ tpc = "setpos"
  /\ rt.channels = MaxChannels
  /\ tl.pos = PERIOD_FRAMES
  /\ tl.len = period_words(rt)
  /\ dma_area[frames_to_words(rt, tl.pos + PERIOD_FRAMES)]
       = Encode(h.nread, MaxChannels - 1, PERIOD_FRAMES - 1)

\* C12: an open of a closed session whose IRQ request succeeds returns 0,
\* binds the substream, resets position to 0, clears running and registers
\* the IRQ; a close returns 0, clears running, unregisters the IRQ and unbinds
\* the substream; an open of a closed session never returns -EBUSY, however
\* many sessions came before.
C12_OpenCloseRepeatable ==
  /\ [][ \A s \in Substreams :
           (st = "CLOSED" /\ matrixio_pcm_open(s, TRUE) /\ st' = "OPEN") =>
             /\ last'.ret = 0
             /\ substream' = s /\ position' = 0 /\ ~running' /\ irq' ]_vars
  /\ [][ \A s \in Substreams, irqOk \in BOOLEAN :
           (st = "CLOSED" /\ matrixio_pcm_open(s, irqOk)) =>
             /\ last'.ret # -EBUSY
             /\ irqOk => st' = "OPEN" ]_vars
  /\ [][ matrixio_pcm_close =>
           /\ last'.ret = 0
           /\ ~running' /\ ~irq' /\ substream' = NULL ]_vars

\* C12 witness: a session was opened after an earlier session, which had
\* configured the device and captured, was closed.
C12_Witness ==
  /\ last.op = "open" /\ last.ret = 0
  /\ st = "OPEN"
  /\ dev.conf06 # 0
  /\ h.nread >= 1

\* The row of the rate table for a rate that has one.
table_row(rate) ==
  matrixio_params[CHOOSE i \in 1 .. Len(matrixio_params) :
                    matrixio_params[i].rate = rate]

\* What the device holds once its registers and FIR are programmed for a rate.
programmed_for(rate) ==
  [conf06 |-> table_row(rate).decimation, conf07 |-> table_row(rate).gain,
   fir |-> rate]

\* C13: a hw_params for a rate r of the table that succeeds leaves
\* CONF_BASE+0x06 with the row's decimation, CONF_BASE+0x07 with the row's gain
\* (61 and 7 for 48000) and the FIR of r uploaded; the device is programmed
\* before the ring is allocated, so it is programmed as well when only the
\* allocation fails.
C13_RateProgramsDevice ==
  [][ \A width \in Widths, rate \in TableRates, channels \in ChannelCounts,
         period_size \in {PERIOD_FRAMES, PERIOD_FRAMES + 1},
         periods \in PeriodCounts, allocOk \in BOOLEAN :
        ( /\ last'.op = "hw_params" /\ last'.arg = rate
          /\ matrixio_pcm_hw_params(width, rate, channels, period_size,
                                    periods, allocOk)
          /\ (last'.ret >= 0 \/ last'.ret = -ENOMEM) )
        => /\ dev' = programmed_for(rate)
           /\ rate = 48000 => (dev'.conf06 = 61 /\ dev'.conf07 = 7)
           /\ last'.ret >= 0 => Len(dma_area') >= period_size * periods * channels
    ]_vars

\* C13 witness: 48 kHz was configured over an earlier configuration of another
\* rate and the ring was allocated.
C13_Witness ==
  /\ last.op = "hw_params" /\ last.arg = 48000 /\ last.ret >= 0
  /\ dev = [conf06 |-> 61, conf07 |-> 7, fir |-> 48000]
  /\ Len(dma_area) = PERIOD_FRAMES * MaxPeriods * MaxChannels
  /\ st = "SETUP"

\* C14: the top half returns IRQ_NONE when no substream is bound; with a
\* substream bound and running clear it returns IRQ_HANDLED, leaves bit 1 as it
\* was and wakes nothing; with running set it leaves bit 1 set and returns
\* IRQ_WAKE_THREAD.  No step schedules a run of the bottom half while running
\* is clear.
C14_TopHalfScreening ==
  /\ [][ matrixio_pcm_interrupt =>
           /\ substream = NULL =>
                (last'.ret = IRQ_NONE /\ UNCHANGED << xfer, pending >>)
           /\ (substream # NULL /\ ~running) =>
                (last'.ret = IRQ_HANDLED /\ UNCHANGED << xfer, pending >>)
           /\ (substream # NULL /\ running) =>
                (last'.ret = IRQ_WAKE_THREAD /\ xfer' /\ pending') ]_vars
  /\ [][ (~pending /\ pending') => running ]_vars

\* C14 witness: an interrupt of the free-running device arrived after STOP
\* and was swallowed: nothing pending, bit 1 clear, the thread idle.
C14_Witness ==
  /\ last.op = "irq" /\ last.ret = IRQ_HANDLED
  /\ st = "SETUP" /\ ~running
  /\ h.nper >= 1
  /\ ~pending /\ ~xfer /\ tpc = "idle"

\* C15: a run of the bottom half whose bus read fails clears bit 1, stores
\* nothing in the ring, leaves position where it was and returns without the
\* period-elapsed notification; running, the IRQ registration and the stream
\* state stay as they were.  Every run that completes, before or after a
\* failed one, advances position by one period modulo the ring.
C15_BusErrorSkipsPeriod ==
  /\ [][ (thread_read_done(FALSE) /\ tpc' = "idle") =>
           /\ ~xfer'
           /\ h'.nper = h.nper
           /\ UNCHANGED << dma_area, position, running, irq, substream, st,
                           lock, frag_buffer >> ]_vars
  /\ [][ thread_set_position =>
           position' = (position + PERIOD_FRAMES) % rt.buffer_size ]_vars

\* C15 witness: the one run woken so far has returned from a failed bus read:
\* nothing was read or stored, position is 0, the stream is still running with
\* its IRQ registered.
C15_Witness ==
  /\ h.nirq = 1 /\ h.nread = 0 /\ h.nper = 0
  /\ tpc = "idle" /\ ~pending /\ ~xfer
  /\ st = "RUNNING" /\ running /\ irq
  /\ position = 0

\* C16: the substream is bound exactly while the session is open; the IRQ is
\* registered, a run of the bottom half is pending or the bottom half is
\* running only with the substream bound.  An open whose IRQ request fails
\* returns the error with the substream unbound, no IRQ registered and the
\* session closed, so that the next open is not refused as busy.
C16_SubstreamIffOpen ==
  /\ []( /\ (substream # NULL) <=> (st # "CLOSED")
         /\ irq => substream # NULL
         /\ (pending \/ tpc # "idle") => (irq /\ substream # NULL) )
  /\ [][ \A s \in Substreams :
           (st = "CLOSED" /\ matrixio_pcm_open(s, FALSE) /\ last'.ret < 0) =>
             /\ substream' = NULL /\ ~irq' /\ st' = "CLOSED"
             /\ ~open_busy' ]_vars

\* C16 witness: after a session that configured the device was closed, an
\* open failed in its IRQ request and left the session closed and unbound.
C16_Witness ==
  /\ last.op = "open" /\ last.ret = -ENOMEM
  /\ substream = NULL /\ ~irq /\ st = "CLOSED"
  /\ dev.conf06 # 0

\* C17: a prepare of a stopped stream whose period size is PERIOD_FRAMES sets
\* position to 0, and position is 0 for as long as the stream stays prepared,
\* that is until the next trigger(START): no step of a bottom half that was
\* woken before the preceding STOP changes position on the way.
C17_PrepareResetHolds ==
  /\ [](st = "PREPARED" => (position = 0 /\ matrixio_pcm_pointer = 0))
  /\ [][ (matrixio_pcm_prepare /\ rt.period_size = PERIOD_FRAMES) =>
           (position' = 0 /\ st' = "PREPARED" /\ last'.ret = 0) ]_vars
  /\ [][ (st = "PREPARED" /\ thread_step) => position' = position ]_vars

\* C17 witness: the stream was stopped with periods captured and then
\* prepared while a bottom half woken before the STOP had finished its bus
\* read and was about to take worker_lock.
C17_Witness ==
  /\ last.op = "prepare" /\ last.ret = 0
  /\ st = "PREPARED"
  /\ position = 0
  /\ tpc = "lock"
  /\ h.nread >= 2

\* C18: no store of the bottom half falls outside the allocated ring: the
\* position P a run reads under worker_lock is a multiple of PERIOD_FRAMES with
\* P + PERIOD_FRAMES <= buffer_size, the area holds the whole ring of the
\* current geometry, and the word about to be stored lies inside the area,
\* whatever hw_params did to the geometry since position last advanced.
C18_RingWritesInside ==
  /\ ~h.oob
  /\ in_write_section =>
       /\ tl.pos % PERIOD_FRAMES = 0
       /\ tl.pos + PERIOD_FRAMES <= rt.buffer_size
       /\ frames_to_words(rt, rt.buffer_size) <= Len(dma_area)
  /\ tpc = "write" =>
       (tl.buf < frames_to_words(rt, rt.buffer_size) /\ tl.buf < Len(dma_area))

\* C18 witness: the bottom half is storing into a ring that a second hw_params
\* has laid out anew inside the area of a previous geometry, whose last period,
\* written under that geometry, lies beyond the end of the new ring.
C18_Witness ==
  /\ tpc = "write"
  /\ st = "RUNNING"
  /\ Len(dma_area) > frames_to_words(rt, rt.buffer_size)
  /\ dma_area[Len(dma_area)] # 0

\* C19 (as claimed): a run of the bottom half that was already in or past its
\* bus read when the latest trigger(START) was issued, having been woken
\* before the STOP that preceded it, never enters the ring-write section,
\* advances position or notifies a period.
C19_NoStalePeriod ==
  h.stale => tpc \notin {"write", "setpos", "elapsed"}

\* C20: bit 1, once set by a top half, is clear again at some later point,
\* whether the bus read succeeds or fails and whatever callbacks intervene;
\* it is clear whenever no run of the bottom half is pending or in flight, so
\* whenever the session is closed, and open does not touch it.
C20_XferNeverStuck ==
  /\ xfer ~> ~xfer
  /\ []((tpc = "idle" /\ ~pending) => ~xfer)
  /\ [](st = "CLOSED" => ~xfer)
  /\ [][ \A s \in Substreams, irqOk \in BOOLEAN :
           matrixio_pcm_open(s, irqOk) => xfer' = xfer ]_vars

\* C20 witness: a session is opened with bit 1 clear after earlier sessions
\* in which top halves had set it and every bus read had failed.
C20_Witness ==
  /\ last.op = "open" /\ last.ret = 0
  /\ st = "OPEN"
  /\ h.nirq >= 2 /\ h.nread = 0
  /\ ~xfer

====
